---- MODULE Spec2Model ----
(***************************************************************************)
(* CARAT allocation relocation (src/aspace/carat/port-runtime/c/patching.c)*)
(*                                                                         *)
(* nk_carat_move_allocation stops the world, looks the allocation up in    *)
(* the allocation map, patches the escape slots and the saved registers of *)
(* every thread, copies the bytes, re-keys the allocation map and starts   *)
(* the world again.                                                        *)
(*                                                                         *)
(* Memory is modelled in units of one pointer-sized slot: an address names *)
(* one slot, a slot holds one machine word, lengths count slots.  Machine  *)
(* words are AddrBits wide (64 in the build) and all arithmetic on them is *)
(* taken modulo 2^AddrBits.  The saved register frames of the threads live *)
(* on stacks outside the modelled memory range.                            *)
(***************************************************************************)
EXTENDS Integers, Sequences, FiniteSets, TLC

\* ---------------------------------------------------------------- bounds
AddrBits == 4
MemSize  == 5
NThreads == 2
NCallers == 2
MaxCalls == 2
MaxSeed  == 1

Modulus == 2 ^ AddrBits
Word    == 0 .. (Modulus - 1)
Addr    == 0 .. (MemSize - 1)
Threads == 1 .. NThreads
Callers == 1 .. NCallers

\* uint64_t <-> int64_t conversions at the modelled width
ToUnsigned(x) == x % Modulus
ToSigned(x)   == IF ToUnsigned(x) >= Modulus \div 2
                 THEN ToUnsigned(x) - Modulus ELSE ToUnsigned(x)

\* ------------------------------------------------------------- registers
\* struct nk_regs: the fifteen registers HANDLE is applied to, then the
\* stack pointer and the instruction pointer, which are left for later.
TrackedRegs == <<"r15", "r14", "r13", "r12", "r11", "r10", "r9", "r8",
                 "rbp", "rdi", "rsi", "rdx", "rcx", "rbx", "rax">>
UntrackedRegs == <<"rsp", "rip">>
RegOrder == TrackedRegs \o UntrackedRegs
RegNames == {RegOrder[i] : i \in 1 .. Len(RegOrder)}
Tracked  == {TrackedRegs[i] : i \in 1 .. Len(TrackedRegs)}
RegIndex(n) == CHOOSE i \in 1 .. Len(RegOrder) : RegOrder[i] = n

\* ------------------------------------------------------- allocation map
\* allocEntry: pointer, length, allocToEscapeMap
allocEntry(ptr, len) == [pointer |-> ptr, length |-> len, escapes |-> {}]
NULL == [pointer |-> -1, length |-> 0, escapes |-> {}]

\* NK_PAIR_BUILD(key, entry): the node stored in allocationMap
NK_PAIR_BUILD(k, e) == [key |-> k, entry |-> e]

\* nk_slist_add on the map: the node for key k is the one given
nk_slist_add(map, node) == {n \in map : n.key # node.key} \cup {node}

\* nk_slist_remove on the map: no node is keyed k afterwards
nk_slist_remove(map, k) == {n \in map : n.key # k}

\* findAllocEntry: exact-base lookup, NULL when the address is no key
findAllocEntry(map, a) ==
    IF \E n \in map : n.key = a
    THEN (CHOOSE n \in map : n.key = a).entry
    ELSE NULL

\* doesItAlias(base, length, p): the offset p - base when
\* base <= p < base + length, a negative sentinel otherwise
doesItAlias(b, L, p) == IF b <= p /\ p < b + L THEN p - b ELSE -1

\* ------------------------------------------------------- the patch passes
\* The loop body that stores the target base without the offset.
PatchEscapeValue_NoOffset(entry, allocationTarget, v) ==
    LET offset == ToSigned(doesItAlias(entry.pointer, entry.length, v))
    IN  IF offset >= 0 THEN ToUnsigned(ToSigned(allocationTarget)) ELSE v

\* The loop body applied to the same slot a second time.
PatchEscapeValue_Twice(entry, allocationTarget, v) ==
    LET once(x) ==
            LET offset == ToSigned(doesItAlias(entry.pointer, entry.length, x))
            IN  IF offset >= 0
                THEN ToUnsigned(ToSigned(allocationTarget) + offset)
                ELSE x
    IN  once(once(v))

\* carat_patch_escapes, the body of the loop for one escape slot holding v
PatchEscapeValue(entry, allocationTarget, v) ==
    LET offset == ToSigned(doesItAlias(entry.pointer, entry.length, v))
    IN  IF offset >= 0
        THEN ToUnsigned(ToSigned(allocationTarget) + offset)
        ELSE v

\* carat_patch_escapes that rewrites every memory slot, recorded or not.
carat_patch_escapes_AllSlots(entry, allocationTarget, m) ==
    [a \in Addr |-> PatchEscapeValue(entry, allocationTarget, m[a])]

\* carat_patch_escapes: memory after the loop over entry->allocToEscapeMap
carat_patch_escapes(entry, allocationTarget, m) ==
    [a \in Addr |-> IF a \in entry.escapes
                    THEN PatchEscapeValue(entry, allocationTarget, m[a])
                    ELSE m[a]]

\* carat_patch_escapes: its only return statement
carat_patch_escapes_ret == 0

\* The HANDLE macro with a bound that includes the end address.
HANDLE_InclusiveEnd(st, v) ==
    IF v >= st.allocationToMove
       /\ v <= ToUnsigned(st.allocationToMove + st.length)
    THEN ToUnsigned(st.allocationTarget + ToUnsigned(v - st.allocationToMove))
    ELSE v

\* The HANDLE macro applied to a register holding v
HANDLE(st, v) ==
    IF v >= st.allocationToMove
       /\ v < ToUnsigned(st.allocationToMove + st.length)
    THEN ToUnsigned(st.allocationTarget + ToUnsigned(v - st.allocationToMove))
    ELSE v

\* handle_thread that also applies HANDLE to rsp and rip.
handle_thread_AllRegs(st, r) == [n \in RegNames |-> HANDLE(st, r[n])]

\* handle_thread: the register frame r of one thread after the callback
handle_thread(st, r) ==
    [n \in RegNames |-> IF n \in Tracked THEN HANDLE(st, r[n]) ELSE r[n]]

\* memmove(dest, from, n): the n slots at from copied to dest; every source
\* slot is read before any destination slot is written
memmove(m, dest, from, n) ==
    [a \in Addr |-> IF dest <= a /\ a < dest + n
                    THEN m[from + (a - dest)]
                    ELSE m[a]]

\* carat_update_entry that leaves the node keyed at the old base in place.
carat_update_entry_NoRemove(map, entry, allocationTarget) ==
    LET newEntry == [allocEntry(allocationTarget, entry.length)
                        EXCEPT !.escapes = entry.escapes]
    IN  nk_slist_add(map, NK_PAIR_BUILD(allocationTarget, newEntry))

\* carat_update_entry whose new entry keeps the old base.
carat_update_entry_StaleBase(map, entry, allocationTarget) ==
    LET newEntry == [allocEntry(entry.pointer, entry.length)
                        EXCEPT !.escapes = entry.escapes]
        pair     == NK_PAIR_BUILD(allocationTarget, newEntry)
    IN  nk_slist_remove(nk_slist_add(map, pair), entry.pointer)

\* carat_update_entry whose new entry does not take the old length.
carat_update_entry_NoLength(map, entry, allocationTarget) ==
    LET newEntry == [allocEntry(allocationTarget, 0)
                        EXCEPT !.escapes = entry.escapes]
        pair     == NK_PAIR_BUILD(allocationTarget, newEntry)
    IN  nk_slist_remove(nk_slist_add(map, pair), entry.pointer)

\* carat_update_entry whose new entry does not take the old escape set.
carat_update_entry_NoEscapes(map, entry, allocationTarget) ==
    LET newEntry == allocEntry(allocationTarget, entry.length)
        pair     == NK_PAIR_BUILD(allocationTarget, newEntry)
    IN  nk_slist_remove(nk_slist_add(map, pair), entry.pointer)

\* carat_update_entry: the allocation map after add-new then remove-old
carat_update_entry(map, entry, allocationTarget) ==
    LET newEntry == [allocEntry(allocationTarget, entry.length)
                        EXCEPT !.escapes = entry.escapes]
        pair     == NK_PAIR_BUILD(allocationTarget, newEntry)
    IN  nk_slist_remove(nk_slist_add(map, pair), entry.pointer)

\* ------------------------------------------------------------------ state
VARIABLES
    mem,            \* memory: Addr -> Word
    regs,           \* saved register frame of every thread
    allocationMap,  \* the allocation map: a set of nodes
    stopper,        \* the caller that holds the stopped world, 0 if running
    pc,             \* per caller: position in nk_carat_move_allocation
    src,            \* per caller: allocationToMove
    tgt,            \* per caller: allocationTarget
    entry,          \* per caller: the local entry
    state,          \* per caller: the local struct move_alloc_state
    cur,            \* per caller: next thread nk_sched_map_threads visits
    ret,            \* per caller: the value returned
    log,            \* per caller: the events of the call so far (history)
    old,            \* memory, registers and map when the world was stopped
    holder,         \* the caller that stopped the world last (history)
    last,           \* the last move that returned 0: its source, its target
                    \* and the state when the world was stopped for it
                    \* (history)
    ncalls          \* number of calls made so far

vars == <<mem, regs, allocationMap, stopper, pc, src, tgt, entry, state,
          cur, ret, log, old, holder, last, ncalls>>

NoState == [allocationToMove |-> 0, allocationTarget |-> 0,
            length |-> 0, failed |-> 0]
NoSnap  == [mem |-> <<>>, regs |-> <<>>, map |-> {}]
NoMove  == [src |-> -1, tgt |-> -1, before |-> NoSnap]
Snapshot == [mem |-> mem, regs |-> regs, map |-> allocationMap]

\* ---------------------------------------------------------------- initial
Node(b, l, E) == NK_PAIR_BUILD(b, [allocEntry(b, l) EXCEPT !.escapes = E])

\* Allocation maps the hooks can have built: keys equal bases, ranges lie in
\* memory and do not overlap; an escape slot may lie inside an allocation
\* and may be recorded for two allocations; an allocation may be empty.
InitMaps ==
    { {Node(1, 2, {0, 2})},
      {Node(0, 1, {2}), Node(3, 2, {2, 4})},
      {Node(3, 1, {}), Node(0, 2, {1, 4})},
      {Node(2, 0, {0}), Node(3, 2, {})} }

Init ==
    /\ \E seed \in 0 .. MaxSeed :
         /\ mem = [a \in Addr |-> (a + seed) % Modulus]
         /\ regs = [t \in Threads |->
                      [n \in RegNames |-> (RegIndex(n) + 3 * t + seed) % Modulus]]
    /\ allocationMap \in InitMaps
    /\ stopper = 0
    /\ pc = [c \in Callers |-> "idle"]
    /\ src = [c \in Callers |-> 0]
    /\ tgt = [c \in Callers |-> 0]
    /\ entry = [c \in Callers |-> NULL]
    /\ state = [c \in Callers |-> NoState]
    /\ cur = [c \in Callers |-> 0]
    /\ ret = [c \in Callers |-> 0]
    /\ log = [c \in Callers |-> <<>>]
    /\ old = NoSnap
    /\ holder = 0
    /\ last = NoMove
    /\ ncalls = 0

\* ---------------------------------------------------------------- actions
\* The arguments a caller passes: any source address, and a target whose
\* range, for a tracked source, lies in memory.
ValidCall(s, t) ==
    LET e == findAllocEntry(allocationMap, s)
    IN  e # NULL => t + e.length <= MemSize

\* Every call that has returned has been retired.  Return touches only the
\* locals of the finished call, so taking it first loses no program state.
Retired == \A d \in Callers : pc[d] # "done"

\* nk_carat_move_allocation(s, t) is entered and nk_sched_stop_world succeeds
StopWorldOk(c, s, t) ==
    /\ pc[c] = "idle" /\ ncalls < MaxCalls
    /\ stopper = 0 /\ Retired
    /\ ValidCall(s, t)
    /\ stopper' = c
    /\ pc' = [pc EXCEPT ![c] = "lookup"]
    /\ src' = [src EXCEPT ![c] = s]
    /\ tgt' = [tgt EXCEPT ![c] = t]
    /\ log' = [log EXCEPT ![c] = <<"stop">>]
    /\ old' = Snapshot
    /\ holder' = c
    /\ ncalls' = ncalls + 1
    /\ UNCHANGED <<last, mem, regs, allocationMap, entry, state, cur, ret>>

\* A refused stop-the-world request that leaves through out_bad.
StopWorldFail_ThroughOutBad(c) ==
    /\ pc[c] = "idle" /\ ncalls < MaxCalls
    /\ stopper # 0 /\ pc[stopper] = "lookup"
    /\ pc' = [pc EXCEPT ![c] = "out_bad"]
    /\ log' = [log EXCEPT ![c] = <<"stop_fail">>]
    /\ ncalls' = ncalls + 1
    /\ UNCHANGED <<last, mem, regs, allocationMap, stopper, src, tgt, entry, state,
                   cur, ret, old, holder>>

\* A refused stop-the-world request that goes on into the call.
StopWorldFail_Proceeds(c) ==
    /\ pc[c] = "idle" /\ ncalls < MaxCalls
    /\ stopper # 0 /\ pc[stopper] = "lookup"
    /\ pc' = [pc EXCEPT ![c] = "lookup"]
    /\ log' = [log EXCEPT ![c] = <<"stop_fail">>]
    /\ ncalls' = ncalls + 1
    /\ UNCHANGED <<last, mem, regs, allocationMap, stopper, src, tgt, entry, state,
                   cur, ret, old, holder>>

\* nk_carat_move_allocation is entered while another caller is taking the
\* world: nk_sched_stop_world fails and the call returns -1.  The request
\* races with the holder's own nk_sched_stop_world; once the holder is past
\* it the world is stopped and no other thread runs to make a request.
StopWorldFail(c) ==
    /\ pc[c] = "idle" /\ ncalls < MaxCalls
    /\ stopper # 0 /\ pc[stopper] = "lookup"
    /\ pc' = [pc EXCEPT ![c] = "done"]
    /\ ret' = [ret EXCEPT ![c] = -1]
    /\ log' = [log EXCEPT ![c] = <<"stop_fail">>]
    /\ ncalls' = ncalls + 1
    /\ UNCHANGED <<last, mem, regs, allocationMap, stopper, src, tgt, entry, state,
                   cur, old, holder>>

\* Lookup that treats a missing entry as success.
Lookup_MissingIsGood(c) ==
    /\ pc[c] = "lookup"
    /\ entry' = [entry EXCEPT ![c] = findAllocEntry(allocationMap, src[c])]
    /\ pc' = [pc EXCEPT ![c] =
                IF entry'[c] = NULL THEN "out_good" ELSE "patch"]
    /\ log' = [log EXCEPT ![c] = Append(@, "lookup")]
    /\ UNCHANGED <<last, mem, regs, allocationMap, stopper, src, tgt, state, cur,
                   ret, old, holder, ncalls>>

\* Lookup that tries once more when it finds no entry.
Lookup_RetryOnce(c) ==
    /\ pc[c] = "lookup"
    /\ entry' = [entry EXCEPT ![c] = findAllocEntry(allocationMap, src[c])]
    /\ pc' = [pc EXCEPT ![c] =
                IF entry'[c] # NULL THEN "patch"
                ELSE IF Len(log[c]) < 2 THEN "lookup" ELSE "out_bad"]
    /\ log' = [log EXCEPT ![c] = Append(@, "lookup")]
    /\ UNCHANGED <<last, mem, regs, allocationMap, stopper, src, tgt, state, cur,
                   ret, old, holder, ncalls>>

\* entry = findAllocEntry(allocationToMove); if (!entry) goto out_bad
Lookup(c) ==
    /\ pc[c] = "lookup"
    /\ entry' = [entry EXCEPT ![c] = findAllocEntry(allocationMap, src[c])]
    /\ pc' = [pc EXCEPT ![c] =
                IF entry'[c] = NULL THEN "out_bad" ELSE "patch"]
    /\ log' = [log EXCEPT ![c] = Append(@, "lookup")]
    /\ UNCHANGED <<last, mem, regs, allocationMap, stopper, src, tgt, state, cur,
                   ret, old, holder, ncalls>>

\* The escape pass reported as failed.
PatchEscapes_ReportsError(c) ==
    /\ pc[c] = "patch"
    /\ mem' = carat_patch_escapes(entry[c], tgt[c], mem)
    /\ log' = [log EXCEPT ![c] = Append(@, "escapes")]
    /\ pc' = [pc EXCEPT ![c] = "out_bad"]
    /\ UNCHANGED <<last, regs, allocationMap, stopper, src, tgt, entry, state, cur,
                   ret, old, holder, ncalls>>

\* The escape pass followed by the copy without the pass over the threads.
PatchEscapes_SkipThreads(c) ==
    /\ pc[c] = "patch"
    /\ mem' = carat_patch_escapes(entry[c], tgt[c], mem)
    /\ log' = [log EXCEPT ![c] = Append(@, "escapes")]
    /\ pc' = [pc EXCEPT ![c] = "copy"]
    /\ UNCHANGED <<last, regs, allocationMap, stopper, src, tgt, entry, state, cur,
                   ret, old, holder, ncalls>>

\* if (carat_patch_escapes(entry, allocationTarget) == 1) goto out_bad;
\* struct move_alloc_state state = {..., entry->length, 0}
PatchEscapes(c) ==
    /\ pc[c] = "patch"
    /\ mem' = carat_patch_escapes(entry[c], tgt[c], mem)
    /\ log' = [log EXCEPT ![c] = Append(@, "escapes")]
    /\ IF carat_patch_escapes_ret = 1
       THEN /\ pc' = [pc EXCEPT ![c] = "out_bad"]
            /\ UNCHANGED <<state, cur>>
       ELSE /\ pc' = [pc EXCEPT ![c] = "threads"]
            /\ state' = [state EXCEPT ![c] =
                           [allocationToMove |-> src[c],
                            allocationTarget |-> tgt[c],
                            length |-> entry[c].length,
                            failed |-> 0]]
            /\ cur' = [cur EXCEPT ![c] = 1]
    /\ UNCHANGED <<last, regs, allocationMap, stopper, src, tgt, entry, ret, old,
                   holder, ncalls>>

\* nk_sched_map_threads(-1, handle_thread, &state): the callback on the
\* next thread
MapThread(c) ==
    /\ pc[c] = "threads" /\ cur[c] <= NThreads
    /\ regs' = [regs EXCEPT ![cur[c]] = handle_thread(state[c], @)]
    /\ cur' = [cur EXCEPT ![c] = @ + 1]
    /\ log' = [log EXCEPT ![c] = Append(@, "thread")]
    /\ UNCHANGED <<last, mem, allocationMap, stopper, pc, src, tgt, entry, state,
                   ret, old, holder, ncalls>>

\* The thread pass followed by the map update without the copy.
ThreadsDone_SkipCopy(c) ==
    /\ pc[c] = "threads" /\ cur[c] > NThreads
    /\ pc' = [pc EXCEPT ![c] =
                IF state[c].failed # 0 THEN "out_bad" ELSE "update"]
    /\ UNCHANGED <<last, mem, regs, allocationMap, stopper, src, tgt, entry, state,
                   cur, ret, log, old, holder, ncalls>>

\* The test of the failed field taken before every thread has been visited.
ThreadsDone_Early(c) ==
    /\ pc[c] = "threads" /\ cur[c] > 1
    /\ pc' = [pc EXCEPT ![c] =
                IF state[c].failed # 0 THEN "out_bad" ELSE "copy"]
    /\ UNCHANGED <<last, mem, regs, allocationMap, stopper, src, tgt, entry, state,
                   cur, ret, log, old, holder, ncalls>>

\* nk_sched_map_threads has returned: if (state.failed) goto out_bad
ThreadsDone(c) ==
    /\ pc[c] = "threads" /\ cur[c] > NThreads
    /\ pc' = [pc EXCEPT ![c] =
                IF state[c].failed # 0 THEN "out_bad" ELSE "copy"]
    /\ UNCHANGED <<last, mem, regs, allocationMap, stopper, src, tgt, entry, state,
                   cur, ret, log, old, holder, last, ncalls>>

\* The copy with the world started before the map update.
Copy_StartsWorld(c) ==
    /\ pc[c] = "copy"
    /\ mem' = memmove(mem, src[c], tgt[c], entry[c].length)
    /\ stopper' = 0
    /\ pc' = [pc EXCEPT ![c] = "update"]
    /\ log' = [log EXCEPT ![c] = Append(@, "copy")]
    /\ UNCHANGED <<last, regs, allocationMap, src, tgt, entry, state, cur, ret,
                   old, holder, ncalls>>

\* memmove(allocationToMove, allocationTarget, entry->length)
Copy(c) ==
    /\ pc[c] = "copy"
    /\ mem' = memmove(mem, src[c], tgt[c], entry[c].length)
    /\ pc' = [pc EXCEPT ![c] = "update"]
    /\ log' = [log EXCEPT ![c] = Append(@, "copy")]
    /\ UNCHANGED <<last, regs, allocationMap, stopper, src, tgt, entry, state, cur,
                   ret, old, holder, ncalls>>

\* carat_update_entry(entry, allocationTarget)
UpdateEntry(c) ==
    /\ pc[c] = "update"
    /\ allocationMap' = carat_update_entry(allocationMap, entry[c], tgt[c])
    /\ pc' = [pc EXCEPT ![c] = "out_good"]
    /\ log' = [log EXCEPT ![c] = Append(@, "update")]
    /\ UNCHANGED <<last, mem, regs, stopper, src, tgt, entry, state, cur, ret, old,
                   holder, ncalls>>

\* out_good that returns without starting the world.
OutGood_NoStart(c) ==
    /\ pc[c] = "out_good"
    /\ ret' = [ret EXCEPT ![c] = 0]
    /\ pc' = [pc EXCEPT ![c] = "done"]
    /\ last' = [src |-> src[c], tgt |-> tgt[c], before |-> old]
    /\ UNCHANGED <<mem, regs, allocationMap, stopper, src, tgt, entry, state, cur,
                   log, old, holder, ncalls>>

\* out_good: nk_sched_start_world(); return 0
OutGood(c) ==
    /\ pc[c] = "out_good"
    /\ stopper' = 0
    /\ ret' = [ret EXCEPT ![c] = 0]
    /\ pc' = [pc EXCEPT ![c] = "done"]
    /\ log' = [log EXCEPT ![c] = Append(@, "start")]
    /\ last' = [src |-> src[c], tgt |-> tgt[c], before |-> old]
    /\ UNCHANGED <<mem, regs, allocationMap, src, tgt, entry, state, cur, old,
                   holder, ncalls>>

\* out_bad that returns without starting the world.
OutBad_NoStart(c) ==
    /\ pc[c] = "out_bad"
    /\ ret' = [ret EXCEPT ![c] = -1]
    /\ pc' = [pc EXCEPT ![c] = "done"]
    /\ UNCHANGED <<last, mem, regs, allocationMap, stopper, src, tgt, entry, state,
                   cur, log, old, holder, ncalls>>

\* out_bad: nk_sched_start_world(); return -1
OutBad(c) ==
    /\ pc[c] = "out_bad"
    /\ stopper' = 0
    /\ ret' = [ret EXCEPT ![c] = -1]
    /\ pc' = [pc EXCEPT ![c] = "done"]
    /\ log' = [log EXCEPT ![c] = Append(@, "start")]
    /\ UNCHANGED <<last, mem, regs, allocationMap, src, tgt, entry, state, cur, old,
                   holder, ncalls>>

\* The caller takes the returned value and is ready for another call; the
\* locals of the finished call go out of scope.
Return(c) ==
    /\ pc[c] = "done" /\ stopper = 0
    /\ pc' = [pc EXCEPT ![c] = "idle"]
    /\ src' = [src EXCEPT ![c] = 0]
    /\ tgt' = [tgt EXCEPT ![c] = 0]
    /\ entry' = [entry EXCEPT ![c] = NULL]
    /\ state' = [state EXCEPT ![c] = NoState]
    /\ cur' = [cur EXCEPT ![c] = 0]
    /\ ret' = [ret EXCEPT ![c] = 0]
    /\ log' = [log EXCEPT ![c] = <<>>]
    /\ old' = IF holder = c THEN NoSnap ELSE old
    /\ holder' = IF holder = c THEN 0 ELSE holder
    /\ UNCHANGED <<last, mem, regs, allocationMap, stopper, ncalls>>

Next ==
    \E c \in Callers :
        \/ \E s \in Addr, t \in Addr : StopWorldOk(c, s, t)
        \/ StopWorldFail(c)
        \/ Lookup(c)
        \/ PatchEscapes(c)
        \/ MapThread(c)
        \/ ThreadsDone(c)
        \/ Copy(c)
        \/ UpdateEntry(c)
        \/ OutGood(c)
        \/ OutBad(c)
        \/ Return(c)

Spec == Init /\ [][Next]_vars

\* A step of the body of nk_carat_move_allocation by the caller inside it
CallStep(c) ==
    \/ Lookup(c)
    \/ PatchEscapes(c)
    \/ MapThread(c)
    \/ ThreadsDone(c)
    \/ Copy(c)
    \/ UpdateEntry(c)
    \/ OutGood(c)
    \/ OutBad(c)

\* The thread inside the call is the one thread that runs while the world is
\* stopped and nothing in the body waits, so its next step is always taken.
\* No branch of the call reads a memory or register value, so the
\* specification for progress starts from one content of the memory.
LiveInit == Init /\ mem = [a \in Addr |-> a % Modulus]
LiveSpec ==
    LiveInit /\ [][Next]_vars /\ \A c \in Callers : WF_vars(CallStep(c))

\* ------------------------------------------------ the two passes alone
\* The two patch passes over the whole integer domain: caller 1 has stopped
\* the world and looked up an entry of any base and length, with slot 0 as
\* its escape slot; slot 0 and every register hold the same value v.  The
\* targets are the ends and the middle of the domain.
RuleTargets == {0, 1, Modulus \div 2, Modulus - 1}
RuleInit ==
    \E b \in Word, L \in Word, t \in RuleTargets, v \in Word :
        LET e == [allocEntry(b, L) EXCEPT !.escapes = {0}]
        IN  /\ mem = [a \in Addr |-> v]
            /\ regs = [th \in Threads |-> [n \in RegNames |-> v]]
            /\ allocationMap = {NK_PAIR_BUILD(b, e)}
            /\ stopper = 1
            /\ pc = [c \in Callers |-> IF c = 1 THEN "patch" ELSE "idle"]
            /\ src = [c \in Callers |-> IF c = 1 THEN b ELSE 0]
            /\ tgt = [c \in Callers |-> IF c = 1 THEN t ELSE 0]
            /\ entry = [c \in Callers |-> IF c = 1 THEN e ELSE NULL]
            /\ state = [c \in Callers |-> NoState]
            /\ cur = [c \in Callers |-> 0]
            /\ ret = [c \in Callers |-> 0]
            /\ log = [c \in Callers |->
                        IF c = 1 THEN <<"stop", "lookup">> ELSE <<>>]
            /\ old = [mem |-> [a \in Addr |-> v],
                      regs |-> [th \in Threads |-> [n \in RegNames |-> v]],
                      map |-> {NK_PAIR_BUILD(b, e)}]
            /\ holder = 1
            /\ last = NoMove
            /\ ncalls = 1

RuleNext ==
    \E c \in Callers :
        \/ PatchEscapes(c)
        \/ MapThread(c)
        \/ ThreadsDone(c)

RuleSpec == RuleInit /\ [][RuleNext]_vars

\* ------------------------------------------------------------ properties
\* The call of caller c has returned and no later call has stopped the world
Finished(c) == pc[c] = "done" /\ holder = c
Success(c)  == Finished(c) /\ ret[c] = 0

\* The entry the finished call of c looked up, as it was when the world was
\* stopped
OldEntry(c) == findAllocEntry(old.map, src[c])

\* The rule of the spec for a pointer-sized value v under a move of
\* [s, s + L) to t, in unbounded integers
Relocated(v, s, L, t) == IF s <= v /\ v < s + L THEN t + (v - s) ELSE v

Count(seq, x) == Cardinality({i \in 1 .. Len(seq) : seq[i] = x})

\* C1: after a successful move the bytes at [target, target+length) equal the
\* bytes that were at [source, source+length) before the call.
C1_ContentPreservation ==
    \A c \in Callers :
        Success(c) =>
            \A i \in 0 .. (OldEntry(c).length - 1) :
                mem[tgt[c] + i] = old.mem[src[c] + i]

\* C2: after a successful move every slot e of the entry's escapes set holds
\* target + (v - source) if the value v it held before the call lies in
\* [source, source+length), and v otherwise.
C2_EscapeCorrectness ==
    \A c \in Callers :
        Success(c) =>
            \A e \in OldEntry(c).escapes :
                mem[e] = Relocated(old.mem[e], src[c], OldEntry(c).length, tgt[c])

\* C3: after a successful move every tracked general-purpose register of
\* every thread holds target + (v - source) if the value v it held before the
\* call lies in [source, source+length), and v otherwise.
C3_RegisterCorrectness ==
    \A c \in Callers :
        Success(c) =>
            \A t \in Threads : \A n \in Tracked :
                regs[t][n] =
                    Relocated(old.regs[t][n], src[c], OldEntry(c).length, tgt[c])

\* C3 witness: a successful move to another address has rewritten a tracked
\* register that pointed into the source range.
C3_Witness ==
    \E c \in Callers :
        /\ Success(c) /\ src[c] # tgt[c]
        /\ \E t \in Threads : \E n \in Tracked :
              /\ src[c] <= old.regs[t][n]
              /\ old.regs[t][n] < src[c] + OldEntry(c).length
              /\ regs[t][n] # old.regs[t][n]

\* C4: no step of any call, on any path, changes the saved stack pointer or
\* instruction pointer of any thread.
C4_StackAndInstructionPointerUntouched ==
    [][\A t \in Threads :
          /\ regs'[t]["rsp"] = regs[t]["rsp"]
          /\ regs'[t]["rip"] = regs[t]["rip"]]_vars

\* C4 witness: a successful move to another address has finished while the
\* saved stack pointer of a thread held an address inside the source range.
C4_Witness ==
    \E c \in Callers :
        /\ Success(c) /\ src[c] # tgt[c]
        /\ \E t \in Threads :
              /\ src[c] <= regs[t]["rsp"]
              /\ regs[t]["rsp"] < src[c] + OldEntry(c).length

\* C5: after a successful move with source # target the map has no node keyed
\* at source and exactly one node keyed at target, whose entry has the
\* original length and exactly the original escapes.
C5_DirectoryRekeyed ==
    \A c \in Callers :
        (Success(c) /\ src[c] # tgt[c]) =>
            /\ ~ \E n \in allocationMap : n.key = src[c]
            /\ Cardinality({n \in allocationMap : n.key = tgt[c]}) = 1
            /\ \A n \in allocationMap :
                  n.key = tgt[c] =>
                      /\ n.entry.length = OldEntry(c).length
                      /\ n.entry.escapes = OldEntry(c).escapes

\* C5 witness: a successful move to another address of an entry that has
\* escapes.
C5_Witness ==
    \E c \in Callers :
        /\ Success(c) /\ src[c] # tgt[c]
        /\ OldEntry(c).escapes # {}
        /\ OldEntry(c).length > 0

\* C6: a call that stopped the world has started it exactly once when it
\* returns, no longer holds it, and the start is the last event of the call
\* (no mutation follows it); before the return the world was not started.
C6_StartWorldExactlyOnce ==
    \A c \in Callers :
        /\ \A i \in 1 .. Len(log[c]) :
              log[c][i] = "start" => i = Len(log[c]) /\ pc[c] = "done"
        /\ (pc[c] = "done" /\ log[c] # <<>> /\ log[c][1] = "stop") =>
              /\ Count(log[c], "start") = 1
              /\ stopper # c
        /\ (pc[c] \notin {"idle", "done"}) => stopper = c

\* C6 witness: a call that stopped the world, moved the allocation and
\* re-keyed the map has returned 0 after starting the world.
C6_Witness ==
    \E c \in Callers :
        /\ pc[c] = "done" /\ ret[c] = 0
        /\ log[c][1] = "stop" /\ log[c][Len(log[c])] = "start"
        /\ Count(log[c], "update") = 1

\* C7: a call whose stop-the-world request is refused returns -1 in that one
\* step, which changes no memory slot, register, map node or lookup result
\* and does not start the world.
C7_StopWorldRefusedIsNoOp ==
    [][\A c \in Callers :
          (pc[c] = "idle" /\ stopper # 0 /\ pc'[c] # "idle") =>
              /\ pc'[c] = "done" /\ ret'[c] = -1
              /\ mem' = mem /\ regs' = regs /\ allocationMap' = allocationMap
              /\ stopper' = stopper
              /\ entry'[c] = NULL
              /\ log'[c] = <<"stop_fail">>]_vars

\* C7 witness: a call has returned -1 because the world was already stopped.
C7_Witness ==
    \E c \in Callers :
        pc[c] = "done" /\ ret[c] = -1 /\ log[c] = <<"stop_fail">>

\* C8: a call whose source is no key of the map returns -1 with the map, the
\* memory and the registers as they were when the world was stopped, and
\* with the world started again.
C8_NotFoundLeavesStateUnchanged ==
    \A c \in Callers :
        (Finished(c) /\ OldEntry(c) = NULL) =>
            /\ ret[c] = -1
            /\ mem = old.mem /\ regs = old.regs /\ allocationMap = old.map
            /\ stopper = 0
            /\ log[c] = <<"stop", "lookup", "start">>

\* C8 witness: a call for an untracked source has returned.
C8_Witness ==
    \E c \in Callers :
        /\ Finished(c) /\ OldEntry(c) = NULL
        /\ ~ \E n \in allocationMap : n.key = src[c]

\* The state the running world sees is the one before the call
FullyOld == mem = old.mem /\ regs = old.regs /\ allocationMap = old.map

\* The state the running world sees is the relocated one: bytes moved,
\* escapes and registers rewritten, map re-keyed
FullyNew(c) ==
    LET e == OldEntry(c)
    IN  /\ \A i \in 0 .. (e.length - 1) : mem[tgt[c] + i] = old.mem[src[c] + i]
        /\ \A a \in e.escapes :
              mem[a] = Relocated(old.mem[a], src[c], e.length, tgt[c])
        /\ \A t \in Threads : \A n \in Tracked :
              regs[t][n] = Relocated(old.regs[t][n], src[c], e.length, tgt[c])
        /\ ~ \E n \in allocationMap : n.key = src[c] /\ src[c] # tgt[c]
        /\ \E n \in allocationMap :
              /\ n.key = tgt[c]
              /\ n.entry.length = e.length /\ n.entry.escapes = e.escapes

\* C9: whenever the world is running, the bytes, escape slots, registers and
\* map are either all as before the last call or all relocated.
C9_AtomicAppearance ==
    \A c \in Callers :
        (stopper = 0 /\ Finished(c)) => (FullyOld \/ FullyNew(c))

\* The thread pass never reports a failure: handle_thread leaves the failed
\* field as line 89 set it.
ThreadPassNeverFails ==
    \A c \in Callers : state[c].failed = 0 /\ ~ (pc[c] = "out_bad" /\ entry[c] # NULL)

\* C11: a successful move with source = target, length > 0 and a non-empty
\* escapes set leaves the value of every escape slot and of every register of
\* every thread as it was before the call.
C11_DegenerateMoveKeepsValues ==
    \A c \in Callers :
        (/\ Success(c) /\ src[c] = tgt[c]
         /\ OldEntry(c).length > 0 /\ OldEntry(c).escapes # {}) =>
            /\ \A e \in OldEntry(c).escapes : mem[e] = old.mem[e]
            /\ regs = old.regs

\* C11 witness: a move with source = target has returned 0 for an entry one
\* of whose escape slots and one of whose thread registers point past the
\* base into the allocation.
C11_Witness ==
    \E c \in Callers :
        /\ Success(c) /\ src[c] = tgt[c]
        /\ \E e \in OldEntry(c).escapes :
              /\ src[c] < old.mem[e]
              /\ old.mem[e] < src[c] + OldEntry(c).length
        /\ \E t \in Threads : \E n \in Tracked :
              /\ src[c] < old.regs[t][n]
              /\ old.regs[t][n] < src[c] + OldEntry(c).length

\* C12: after a successful move with source = target the map still has
\* exactly one node keyed at that address, with the original length and
\* the original escapes.
C12_DegenerateMoveKeepsEntry ==
    \A c \in Callers :
        (Success(c) /\ src[c] = tgt[c]) =>
            /\ Cardinality({n \in allocationMap : n.key = src[c]}) = 1
            /\ \A n \in allocationMap :
                  n.key = src[c] =>
                      /\ n.entry.length = OldEntry(c).length
                      /\ n.entry.escapes = OldEntry(c).escapes

\* C13: every key of the map equals the base of the entry it maps to, after
\* any sequence of calls; so a call whose source is the target of the last
\* successful move (source # target) finds the entry, based at that address,
\* and a call whose source is that move's source finds none.
C13_KeysEqualBases ==
    /\ \A n \in allocationMap : n.key = n.entry.pointer
    /\ \A c \in Callers :
          (/\ stopper = c /\ pc[c] # "lookup"
           /\ last # NoMove /\ last.src # last.tgt) =>
              /\ src[c] = last.tgt =>
                    entry[c] # NULL /\ entry[c].pointer = src[c]
              /\ src[c] = last.src => entry[c] = NULL

\* C13 witness: a second call, whose source is the target of the move that
\* succeeded before it, has looked its entry up.
C13_Witness ==
    \E c \in Callers :
        /\ stopper = c /\ pc[c] = "patch"
        /\ last # NoMove /\ last.src # last.tgt
        /\ src[c] = last.tgt

\* The byte range [base, base + length) of an entry
Range(e) == e.pointer .. (e.pointer + e.length - 1)
NonOverlap(map) ==
    \A m \in map : \A n \in map :
        m # n => Range(m.entry) \cap Range(n.entry) = {}

\* The target range of the call of c meets the range of no other entry of map
TargetFree(map, c) ==
    \A n \in map :
        n.key # src[c] =>
            Range(n.entry) \cap (tgt[c] .. (tgt[c] + entry[c].length - 1)) = {}

\* C14 as claimed: after any sequence of calls with arbitrary targets no two
\* entries of the map have overlapping ranges.
C14_NonOverlap == NonOverlap(allocationMap)

\* C14 as amended: a step of a call whose target range meets the range of no
\* other entry keeps the ranges of the map's entries from overlapping.
C14_NonOverlapKeptByFreeTargets ==
    [][(/\ NonOverlap(allocationMap)
        /\ \A c \in Callers : pc[c] = "update" => TargetFree(allocationMap, c))
          => NonOverlap(allocationMap')]_vars

\* C14 witness: a move to another address whose target range was free has
\* re-keyed its entry in a map of two entries.
C14_Witness ==
    \E c \in Callers :
        /\ pc[c] = "out_good" /\ src[c] # tgt[c] /\ entry[c].length > 0
        /\ TargetFree(old.map, c)
        /\ Cardinality(allocationMap) = 2

\* The node the update step of c makes of the entry found at its source
Rekeyed(map, c) ==
    LET e == findAllocEntry(map, src[c])
    IN  NK_PAIR_BUILD(tgt[c], [pointer |-> tgt[c], length |-> e.length,
                               escapes |-> e.escapes])

\* C15: every node of the map after a step is a node of the map before it or
\* the entry of the updating call with its base set to the target and its
\* length (and escapes) as before; a call updates at most once; a call that
\* returns failure leaves the map as it was when the world stopped.
C15_LengthImmutable ==
    [][/\ \A n \in allocationMap' :
              \/ n \in allocationMap
              \/ \E c \in Callers :
                    /\ pc[c] = "update" /\ pc'[c] = "out_good"
                    /\ n = Rekeyed(allocationMap, c)
       /\ \A c \in Callers : Count(log'[c], "update") <= 1
       /\ \A c \in Callers :
              (pc'[c] = "done" /\ holder' = c /\ ret'[c] = -1) =>
                  allocationMap' = old'.map]_vars

\* C15 witness: a second successful move has re-keyed an entry of positive
\* length that the first one had already moved.
C15_Witness ==
    \E c \in Callers :
        /\ pc[c] = "out_good" /\ last # NoMove /\ last.src # last.tgt
        /\ src[c] = last.tgt /\ src[c] # tgt[c]
        /\ entry[c].length > 0
        /\ findAllocEntry(allocationMap, tgt[c]).length = entry[c].length

\* The call of c is between its successful stop-the-world and its start
InCall(c) ==
    pc[c] \in {"lookup", "patch", "threads", "copy", "update",
               "out_good", "out_bad"}

\* C16: at most one call is between its successful stop-the-world and its
\* start-the-world, it is the call the world is stopped for, and a call that
\* asked for the world while it was taken has returned -1 without a lookup.
C16_MutualExclusion ==
    /\ \A c \in Callers : \A d \in Callers :
          (InCall(c) /\ InCall(d)) => c = d
    /\ \A c \in Callers : InCall(c) <=> stopper = c
    /\ \A c \in Callers :
          (log[c] # <<>> /\ log[c][1] = "stop_fail") =>
              /\ pc[c] = "done" /\ ret[c] = -1
              /\ log[c] = <<"stop_fail">> /\ entry[c] = NULL

\* C16 witness: one call is copying with the world stopped for it while the
\* call of another caller, made in between, has been refused.
C16_Witness ==
    \E c \in Callers : \E d \in Callers :
        /\ c # d
        /\ stopper = c /\ pc[c] = "copy"
        /\ pc[d] = "done" /\ ret[d] = -1 /\ log[d] = <<"stop_fail">>

\* C17: whenever the world is stopped for a call, that call returns and the
\* world is started again.
C17_Liveness ==
    \A c \in Callers :
        (stopper = c) ~> (stopper = 0 /\ pc[c] = "done")

\* C17 witness: a call that patched every escape slot and every thread has
\* returned with the world started again.
C17_Witness ==
    \E c \in Callers :
        /\ pc[c] = "done" /\ stopper = 0
        /\ Count(log[c], "escapes") = 1
        /\ Count(log[c], "thread") = NThreads
        /\ Len(log[c]) = NThreads + 6

\* C18: a call that has returned holds 0 or -1; it holds 0 only with the
\* escape pass, the pass over every thread, the copy and the map update all
\* done and the world started last; it holds -1 with neither the copy nor
\* the map update done.
C18_ReturnValue ==
    \A c \in Callers :
        pc[c] = "done" =>
            /\ ret[c] \in {0, -1}
            /\ ret[c] = 0 =>
                  /\ Count(log[c], "escapes") = 1
                  /\ Count(log[c], "thread") = NThreads
                  /\ Count(log[c], "copy") = 1
                  /\ Count(log[c], "update") = 1
                  /\ log[c][Len(log[c])] = "start"
                  /\ stopper # c
            /\ ret[c] = -1 =>
                  /\ Count(log[c], "copy") = 0
                  /\ Count(log[c], "update") = 0
                  /\ holder = c => allocationMap = old.map

\* C18 witness: one call has returned 0 after the copy and the map update
\* and the call of another caller has returned -1.
C18_Witness ==
    \E c \in Callers : \E d \in Callers :
        /\ pc[c] = "done" /\ ret[c] = 0
        /\ Count(log[c], "copy") = 1 /\ Count(log[c], "update") = 1
        /\ pc[d] = "done" /\ ret[d] = -1

\* The events of a successful call, in order
SuccessLog ==
    <<"stop", "lookup", "escapes">> \o [i \in 1 .. NThreads |-> "thread"]
        \o <<"copy", "update", "start">>
IsPrefix(p, q) == Len(p) <= Len(q) /\ SubSeq(q, 1, Len(p)) = p

\* C19: the events of a call that returns 0 are stop, lookup, escape pass,
\* one pass per thread, copy, map update, start, each once and in this
\* order, and those of a call still running are a prefix of them; until both
\* passes are over no memory slot other than an escape slot has changed and
\* the map is as it was when the world stopped.
C19_StepOrdering ==
    \A c \in Callers :
        /\ (pc[c] = "done" /\ ret[c] = 0) => log[c] = SuccessLog
        /\ InCall(c) => IsPrefix(log[c], SuccessLog)
        /\ pc[c] \in {"lookup", "patch", "threads", "copy"} =>
              /\ Count(log[c], "copy") = 0
              /\ allocationMap = old.map
              /\ \A a \in Addr \ entry[c].escapes : mem[a] = old.mem[a]

\* C19 witness: both passes are over, each having rewritten a value, and the
\* copy is the next step.
C19_Witness ==
    \E c \in Callers :
        /\ pc[c] = "copy" /\ stopper = c
        /\ Len(log[c]) = NThreads + 3
        /\ mem # old.mem /\ regs # old.regs
        /\ allocationMap = old.map

\* C20: a step that changes a memory slot, a register or the map is taken by
\* the call the world is stopped for, after its stop and before its start;
\* and from the escape pass of that call to its start no other caller takes
\* a step.
C20_WritesInsideStoppedWorld ==
    [][/\ (mem' # mem \/ regs' # regs \/ allocationMap' # allocationMap) =>
              \E c \in Callers :
                  /\ stopper = c /\ stopper' = c
                  /\ log[c] # <<>> /\ log[c][1] = "stop"
                  /\ Count(log'[c], "start") = 0
                  /\ pc'[c] # pc[c] \/ cur'[c] # cur[c]
       /\ \A c \in Callers :
              (stopper = c /\ pc[c] # "lookup") =>
                  \A d \in Callers \ {c} :
                      /\ pc'[d] = pc[d] /\ log'[d] = log[d]
                      /\ ret'[d] = ret[d] /\ entry'[d] = entry[d]]_vars

\* C20 witness: an escape slot, a register, and the map have all been written
\* and the world is still stopped for the writing call.
C20_Witness ==
    \E c \in Callers :
        /\ stopper = c /\ pc[c] = "out_good"
        /\ \E a \in entry[c].escapes : mem[a] # old.mem[a]
        /\ regs # old.regs
        /\ allocationMap # old.map

\* C21: the set of escape slots of an entry is the same throughout a call:
\* the entry the call works on has the set it had when the world stopped,
\* after a successful call every node of the map is a node of the map as it
\* was or the node at the target with the set of the moved entry, and after a
\* failed call the map is as it was.
C21_EscapeSetUnchanged ==
    \A c \in Callers :
        /\ (InCall(c) /\ entry[c] # NULL) =>
              entry[c].escapes = OldEntry(c).escapes
        /\ Success(c) =>
              \A n \in allocationMap :
                  \/ n \in old.map
                  \/ n.key = tgt[c] /\ n.entry.escapes = OldEntry(c).escapes
        /\ (Finished(c) /\ ret[c] = -1) => allocationMap = old.map

\* C21 witness: a successful move to another address has rewritten the value
\* of an escape slot and the node at the target has the set of the moved
\* entry.
C21_Witness ==
    \E c \in Callers :
        /\ Success(c) /\ src[c] # tgt[c]
        /\ \E e \in OldEntry(c).escapes : mem[e] # old.mem[e]
        /\ findAllocEntry(allocationMap, tgt[c]).escapes = OldEntry(c).escapes
        /\ findAllocEntry(allocationMap, src[c]) = NULL

\* The source range and the target range of the finished call of c
SrcRange(c) == src[c] .. (src[c] + OldEntry(c).length - 1)
TgtRange(c) == tgt[c] .. (tgt[c] + OldEntry(c).length - 1)

C24_FlagReadAfterAllThreads ==
    [][\A c \in Callers :
          /\ (pc[c] = "threads" /\ pc'[c] # "threads") =>
                /\ cur[c] = NThreads + 1
                /\ Count(log[c], "thread") = NThreads
                /\ pc'[c] = IF state[c].failed # 0 THEN "out_bad" ELSE "copy"
          /\ (pc[c] = "threads" /\ pc'[c] = "threads") =>
                /\ cur[c] \in Threads /\ cur'[c] = cur[c] + 1
                /\ Count(log'[c], "thread") = cur[c]
                /\ \A t \in Threads \ {cur[c]} : regs'[t] = regs[t]]_vars

\* C24 witness: the failed field has been tested after the callback rewrote
\* a register of every thread.
C24_Witness ==
    \E c \in Callers :
        /\ pc[c] = "copy" /\ stopper = c /\ cur[c] = NThreads + 1
        /\ \A t \in Threads : regs[t] # old.regs[t]

\* p aliases the allocation of base b and length L: b <= p < b + L
Aliases(b, L, p) == b <= p /\ p < b + L

\* The value the two passes are to leave in place of v for the call of c,
\* by the half-open test in unbounded integers
Expected(c, v) ==
    IF Aliases(src[c], entry[c].length, v)
    THEN ToUnsigned(tgt[c] + (v - src[c]))
    ELSE v

\* Both passes of the call of c are over and nothing else has been written
PassesDone(c) == pc[c] = "copy" /\ stopper = c

\* The base and the length of the entry of c keep every address of the
\* range and every offset below the ends of the integer domain
InDomain(c) ==
    /\ src[c] + entry[c].length < Modulus
    /\ entry[c].length <= Modulus \div 2

\* Over the allocations that lie inside the integer domain both passes
\* decide by the half-open test and rewrite to target + (v - base).
RuleHoldsInDomain ==
    \A c \in Callers :
        (PassesDone(c) /\ InDomain(c)) =>
            /\ \A e \in entry[c].escapes : mem[e] = Expected(c, old.mem[e])
            /\ \A th \in Threads : \A n \in Tracked :
                  regs[th][n] = Expected(c, old.regs[th][n])

\* C26: for every base, length and address both passes treat a value v as
\* aliasing exactly when base <= v < base + length: they leave
\* target + (v - base) for an aliasing v (offset 0 at v = base, length - 1 at
\* v = base + length - 1) and v itself otherwise (v = base + length,
\* v = base - 1, any v with length 0).
C26_AliasingBoundaries ==
    \A c \in Callers :
        PassesDone(c) =>
            /\ \A e \in entry[c].escapes : mem[e] = Expected(c, old.mem[e])
            /\ \A th \in Threads : \A n \in Tracked :
                  regs[th][n] = Expected(c, old.regs[th][n])

\* C27: for every base, length, target and value v the register pass leaves
\* in a tracked register that held v what the escape pass leaves in an
\* escape slot that held v.
C27_PassesAgree ==
    \A c \in Callers :
        PassesDone(c) =>
            \A e \in entry[c].escapes : \A th \in Threads : \A n \in Tracked :
                old.mem[e] = old.regs[th][n] => mem[e] = regs[th][n]

\* The value the two passes are to leave in place of v for the call of c,
\* with addresses and sums taken modulo 2^w: v aliases when its distance
\* above the base is below the length
ExpectedModular(c, v) ==
    LET offset == ToUnsigned(v - src[c])
    IN  IF offset < entry[c].length
        THEN ToUnsigned(tgt[c] + offset)
        ELSE v

\* C28: at the ends of the integer domain as inside it (base + length past
\* 2^w, an offset of 2^(w-1) or more, a sum target + offset past 2^w) both
\* passes leave (target + (v - base)) mod 2^w for an aliasing v and v itself
\* otherwise.
C28_IntegerDomainEdges ==
    \A c \in Callers :
        PassesDone(c) =>
            /\ \A e \in entry[c].escapes :
                  mem[e] = ExpectedModular(c, old.mem[e])
            /\ \A th \in Threads : \A n \in Tracked :
                  regs[th][n] = ExpectedModular(c, old.regs[th][n])

\* C29: in the events of one call the stop-the-world request, the lookup and
\* the escape pass occur at most once each and the callback at most once per
\* thread; a refused request ends the call in that step, and a call at
\* out_bad does nothing more than start the world and return -1.
C29_NoInternalRetry ==
    [][\A c \in Callers :
          /\ Count(log'[c], "stop") + Count(log'[c], "stop_fail") <= 1
          /\ Count(log'[c], "lookup") <= 1
          /\ Count(log'[c], "escapes") <= 1
          /\ Count(log'[c], "thread") <= NThreads
          /\ (Count(log'[c], "stop_fail") = 1) =>
                (pc'[c] = "done" /\ ret'[c] = -1)
          /\ (pc[c] = "out_bad" /\ pc'[c] # "out_bad") =>
                /\ pc'[c] = "done" /\ ret'[c] = -1
                /\ log'[c] = Append(log[c], "start")]_vars

\* C29 witness: one call has returned -1 after its only lookup found no
\* entry, and the call of another caller after its only request was refused.
C29_Witness ==
    \E c \in Callers : \E d \in Callers :
        /\ pc[c] = "done" /\ log[c] = <<"stop", "lookup", "start">>
        /\ pc[d] = "done" /\ log[d] = <<"stop_fail">>

\* C30: when both passes of a call are over, the escape pass has run once and
\* the callback once per thread, and every escape slot and tracked register
\* that held a value v of the source range holds target + (v - source), also
\* when that value lies in the source range again.
C30_SingleApplication ==
    \A c \in Callers :
        PassesDone(c) =>
            /\ Count(log[c], "escapes") = 1
            /\ Count(log[c], "thread") = NThreads
            /\ \A e \in entry[c].escapes :
                  Aliases(src[c], entry[c].length, old.mem[e]) =>
                      mem[e] = tgt[c] + (old.mem[e] - src[c])
            /\ \A th \in Threads : \A n \in Tracked :
                  Aliases(src[c], entry[c].length, old.regs[th][n]) =>
                      regs[th][n] = tgt[c] + (old.regs[th][n] - src[c])

\* C30 witness: the ranges overlap, and an escape slot and a tracked register
\* each hold a rewritten value that lies in the source range again.
C30_Witness ==
    \E c \in Callers :
        /\ PassesDone(c) /\ src[c] # tgt[c]
        /\ \E e \in entry[c].escapes :
              /\ Aliases(src[c], entry[c].length, old.mem[e])
              /\ mem[e] # old.mem[e]
              /\ Aliases(src[c], entry[c].length, mem[e])
        /\ \E th \in Threads : \E n \in Tracked :
              /\ Aliases(src[c], entry[c].length, old.regs[th][n])
              /\ regs[th][n] # old.regs[th][n]
              /\ Aliases(src[c], entry[c].length, regs[th][n])

\* The source range and the target range of the finished call of c share no
\* address
Disjoint(c) == SrcRange(c) \cap TgtRange(c) = {}

\* C31: after a successful move between disjoint ranges no escape slot of the
\* moved entry and no tracked register of any thread holds an address of the
\* source range, and every one of them whose value changed holds an address
\* of the target range.
C31_NoStalePointer ==
    \A c \in Callers :
        (Success(c) /\ Disjoint(c)) =>
            /\ \A e \in OldEntry(c).escapes :
                  /\ mem[e] \notin SrcRange(c)
                  /\ mem[e] # old.mem[e] => mem[e] \in TgtRange(c)
            /\ \A th \in Threads : \A n \in Tracked :
                  /\ regs[th][n] \notin SrcRange(c)
                  /\ regs[th][n] # old.regs[th][n] =>
                        regs[th][n] \in TgtRange(c)

\* C32: after a successful move between disjoint ranges, for every escape
\* slot e of the moved entry that lies in the source range and held an
\* address v of the source range, the slot target + (e - source) holds
\* target + (v - source).
C32_EscapeSlotInsideAllocation ==
    \A c \in Callers :
        (Success(c) /\ Disjoint(c)) =>
            \A e \in OldEntry(c).escapes \cap SrcRange(c) :
                old.mem[e] \in SrcRange(c) =>
                    mem[tgt[c] + (e - src[c])] =
                        tgt[c] + (old.mem[e] - src[c])

\* C33: when a call has returned, on success or on failure, the map has as
\* many nodes as it had when the world was stopped for the call.
C33_EntryCountPreserved ==
    \A c \in Callers :
        Finished(c) => Cardinality(allocationMap) = Cardinality(old.map)

\* The escape slots that belong to entries of the map other than the one at
\* the source of the call of c, and not to that one
OthersOnlySlots(c) ==
    UNION {n.entry.escapes : n \in {m \in old.map : m.key # src[c]}}
        \ OldEntry(c).escapes

\* C34: when a call has returned, every node of the map as it was when the
\* world stopped, other than the one at the source, is in the map as it was,
\* and every escape slot that belongs to other entries only holds what it
\* held.
C34_FrameOnOtherAllocations ==
    \A c \in Callers :
        Finished(c) =>
            /\ \A n \in old.map : n.key # src[c] => n \in allocationMap
            /\ \A e \in OthersOnlySlots(c) : mem[e] = old.mem[e]

\* C35: carat_patch_escapes returns 0 and the failed field stays 0, so a call
\* is at out_bad only if its lookup found no entry; a call that has returned
\* after a successful stop and a lookup that found an entry holds 0, and a
\* call that holds -1 was refused the world or found no entry.
C35_ReachableFailures ==
    /\ carat_patch_escapes_ret = 0
    /\ \A c \in Callers :
          /\ state[c].failed = 0
          /\ pc[c] = "out_bad" => entry[c] = NULL
          /\ pc[c] = "done" =>
                /\ (log[c][1] = "stop" /\ entry[c] # NULL) => ret[c] = 0
                /\ ret[c] = -1 =>
                      \/ log[c] = <<"stop_fail">>
                      \/ /\ log[c] = <<"stop", "lookup", "start">>
                         /\ entry[c] = NULL

\* C35 witness: a call that stopped the world and found its entry has
\* returned 0 after the escape pass and the pass over every thread.
C35_Witness ==
    \E c \in Callers :
        /\ pc[c] = "done" /\ ret[c] = 0
        /\ log[c][1] = "stop" /\ entry[c] # NULL
        /\ entry[c].escapes # {}
        /\ state[c].length = entry[c].length /\ state[c].failed = 0

\* The call of c has done every write of a successful move from the target
\* of the last successful move back to its source, and the two ranges share
\* no address
RoundTrip(c) ==
    /\ pc[c] = "out_good" /\ last # NoMove
    /\ src[c] = last.tgt /\ tgt[c] = last.src
    /\ entry[c].length > 0
    /\ (src[c] .. (src[c] + entry[c].length - 1))
          \cap (tgt[c] .. (tgt[c] + entry[c].length - 1)) = {}

\* The addresses of the range at a of the length of the entry of c
RangeAt(c, a) == a .. (a + entry[c].length - 1)

\* C36 as claimed: after a move from A to B and a move from B back to A,
\* with A and B disjoint, every escape slot of the entry and every tracked
\* register holds what it held before the first move, and the map has the
\* entry at A that it had.
C36_RoundTrip ==
    \A c \in Callers :
        RoundTrip(c) =>
            /\ \A e \in entry[c].escapes : mem[e] = last.before.mem[e]
            /\ \A th \in Threads : \A n \in Tracked :
                  regs[th][n] = last.before.regs[th][n]
            /\ findAllocEntry(allocationMap, tgt[c]) =
                  findAllocEntry(last.before.map, tgt[c])

\* C36 as amended: after a move from A to B and a move from B back to A,
\* with A and B disjoint, every tracked register that did not hold an
\* address of B, and every escape slot of the entry outside A and B that did
\* not hold an address of B, holds what it held before the first move, and
\* the map has the entry at A that it had.
C36_RoundTripOutsideTarget ==
    \A c \in Callers :
        RoundTrip(c) =>
            /\ \A e \in entry[c].escapes
                        \ (RangeAt(c, tgt[c]) \cup RangeAt(c, src[c])) :
                  last.before.mem[e] \notin RangeAt(c, src[c]) =>
                      mem[e] = last.before.mem[e]
            /\ \A th \in Threads : \A n \in Tracked :
                  last.before.regs[th][n] \notin RangeAt(c, src[c]) =>
                      regs[th][n] = last.before.regs[th][n]
            /\ findAllocEntry(allocationMap, tgt[c]) =
                  findAllocEntry(last.before.map, tgt[c])

\* C36 witness: the second move of a round trip has done its writes, and an
\* escape slot outside both ranges and a tracked register that held
\* addresses of A hold them again.
C36_Witness ==
    \E c \in Callers :
        /\ RoundTrip(c)
        /\ \E e \in entry[c].escapes
                       \ (RangeAt(c, tgt[c]) \cup RangeAt(c, src[c])) :
              /\ last.before.mem[e] \in RangeAt(c, tgt[c])
              /\ mem[e] = last.before.mem[e]
        /\ \E th \in Threads : \E n \in Tracked :
              /\ last.before.regs[th][n] \in RangeAt(c, tgt[c])
              /\ regs[th][n] = last.before.regs[th][n]
        /\ findAllocEntry(allocationMap, tgt[c]) # NULL

====
